---- MODULE Spec2Model ----
(***************************************************************************)
(* Field-level encryption of the SecureBank demo:                          *)
(*   src/lib/security/encryption.js   key, encrypt, decrypt                *)
(*   src/documentation.md (84-104)    the encrypt-ssns sweep of            *)
(*                                    scripts/db-utils.js                  *)
(*   src/documentation.md (541-546)   lib/db/index after PERF-408          *)
(*   src/tests/db.test.ts             its imports and vi.resetModules      *)
(*                                                                         *)
(* A JavaScript string is a sequence of UTF-16 code units, a Buffer a      *)
(* sequence of bytes (0..255).  Buffer.from(s, "utf8"), toString("utf8"),  *)
(* toString("hex"), Buffer.from(s, "hex"), split and join are computed as  *)
(* Node computes them.  AES-256-GCM itself lives in node:crypto, outside   *)
(* the repository: the model keeps its contract (key and IV length checks, *)
(* a keystream XORed onto the data, a 16-byte tag that is a function of    *)
(* key, IV and ciphertext and is compared by final()) over a small         *)
(* stand-in for the AES block function.                                    *)
(***************************************************************************)
EXTENDS Integers, Sequences, FiniteSets, TLC

VARIABLES
    env,        \* process.env.ENCRYPTION_KEY: a string, or Undefined
    key,        \* the module constant `key` (a Buffer)
    held,       \* the last encrypt call of the caller: its argument and result
    log,        \* every encrypt call so far, in order
    dec,        \* the decrypt call in progress (its locals and position)
    store,      \* the users table: id -> ssn
    store0,     \* the users table before the first sweep
    sweep,      \* the encrypt-ssns run in progress
    runs,       \* per finished run: the table it left and the ids it wrote
    racers,     \* the encrypt-ssns runs in progress side by side
    writes,     \* every UPDATE of those runs, in order
    proc,       \* the Node process: its module cache and what it printed
    peer,       \* another process that reads what this one encrypted
    dbm         \* the process that imports lib/db/index

\* the variables only the later specifications change
rest == <<racers, writes, proc, peer, dbm>>

vars == <<env, key, held, log, dec, store, store0, sweep, runs, rest>>

----------------------------------------------------------------------------
(* Bounds of the model *)

\* encrypt calls kept in the log
MaxEncrypts == 2
\* records of the users table
NumRecords == 2
\* runs of the encrypt-ssns command
MaxSweeps == 2
\* encrypt-ssns commands running at once
NumSweepers == 2
\* callers that import encryption.js
NumCallers == 2
\* files that import lib/db/index
NumImporters == 3
\* imports of lib/db/index in one process
MaxImports == 5

(* Program constants *)

\* randomBytes(12)
NonceLen == 12
\* the tag getAuthTag() returns for aes-256-gcm
TagLen == 16
\* the key length aes-256 requires
KeyLen == 32
\* the block length of AES
BlockLen == 16

\* the code unit of ":"
Colon == 58
\* `undefined`, told apart from every string and Buffer
Undefined == <<-1>>

----------------------------------------------------------------------------
(* Bytes *)

Min(S) == CHOOSE x \in S : \A y \in S : x <= y

\* the function f on 1..n as the sequence of its values
AsSeq(f) == f \o <<>>

\* 2^k, for the bits 0..7 of a byte
Pow2(k) == <<1, 2, 4, 8, 16, 32, 64, 128>>[k + 1]

Bit(b, k) == (b \div Pow2(k)) % 2

\* bitwise exclusive or of two bytes
Xor(a, b) ==
    LET x(p) == (((a \div p) + (b \div p)) % 2) * p
    IN x(1) + x(2) + x(4) + x(8) + x(16) + x(32) + x(64) + x(128)

\* byte b with bit k inverted
FlipBit(b, k) == IF Bit(b, k) = 1 THEN b - Pow2(k) ELSE b + Pow2(k)

\* buffer buf with bit k of its byte i inverted
FlipAt(buf, i, k) == [buf EXCEPT ![i] = FlipBit(buf[i], k)]

----------------------------------------------------------------------------
(* Buffer <-> hex string *)

HexChar(n) == IF n < 10 THEN 48 + n ELSE 87 + n

HexVal(c) == IF c \in 48..57 THEN c - 48
             ELSE IF c \in 97..102 THEN c - 87
             ELSE IF c \in 65..70 THEN c - 55
             ELSE -1

IsHexString(s) == \A i \in 1..Len(s) : HexVal(s[i]) >= 0

\* buf.toString("hex")
toHex(buf) ==
    AsSeq([i \in 1..(2 * Len(buf)) |->
        IF i % 2 = 1 THEN HexChar(buf[(i + 1) \div 2] \div 16)
                     ELSE HexChar(buf[i \div 2] % 16)])

\* Buffer.from(s, "hex"): whole pairs of hex digits, up to the first pair
\* that is not one (a trailing odd character is dropped)
fromHex(s) ==
    LET n == Len(s) \div 2
        bad == {i \in 1..n : HexVal(s[2 * i - 1]) < 0 \/ HexVal(s[2 * i]) < 0}
        m == IF bad = {} THEN n ELSE Min(bad) - 1
    IN AsSeq([i \in 1..m |-> 16 * HexVal(s[2 * i - 1]) + HexVal(s[2 * i])])

----------------------------------------------------------------------------
(* String <-> UTF-8 *)

IsHigh(c) == c \in 55296..56319
IsLow(c) == c \in 56320..57343
IsCont(b) == b \in 128..191

\* the UTF-8 bytes of code point cp
EncodeCodePoint(cp) ==
    IF cp < 128 THEN <<cp>>
    ELSE IF cp < 2048 THEN <<192 + (cp \div 64), 128 + (cp % 64)>>
    ELSE IF cp < 65536
        THEN <<224 + (cp \div 4096), 128 + ((cp \div 64) % 64),
               128 + (cp % 64)>>
    ELSE <<240 + (cp \div 262144), 128 + ((cp \div 4096) % 64),
           128 + ((cp \div 64) % 64), 128 + (cp % 64)>>

\* Buffer.from(s, "utf8") / cipher.update(s, "utf8"): a surrogate pair is one
\* code point, an unpaired surrogate is written as U+FFFD
RECURSIVE utf8Encode(_)
utf8Encode(s) ==
    IF s = <<>> THEN <<>>
    ELSE IF IsHigh(s[1]) /\ Len(s) >= 2 /\ IsLow(s[2])
        THEN EncodeCodePoint(65536 + (s[1] - 55296) * 1024 + (s[2] - 56320))
             \o utf8Encode(SubSeq(s, 3, Len(s)))
    ELSE IF IsHigh(s[1]) \/ IsLow(s[1])
        THEN EncodeCodePoint(65533) \o utf8Encode(Tail(s))
    ELSE EncodeCodePoint(s[1]) \o utf8Encode(Tail(s))

\* the code units of code point cp
CodeUnits(cp) ==
    IF cp < 65536 THEN <<cp>>
    ELSE <<55296 + ((cp - 65536) \div 1024), 56320 + ((cp - 65536) % 1024)>>

\* the length of the well-formed UTF-8 sequence that starts b, 0 if none
SeqLen(b) ==
    LET n == Len(b)
        b1 == b[1]
        lo2 == IF b1 = 224 THEN 160 ELSE IF b1 = 240 THEN 144 ELSE 128
        hi2 == IF b1 = 237 THEN 159 ELSE IF b1 = 244 THEN 143 ELSE 191
    IN IF b1 < 128 THEN 1
       ELSE IF b1 \in 194..223
           THEN IF n >= 2 /\ IsCont(b[2]) THEN 2 ELSE 0
       ELSE IF b1 \in 224..239
           THEN IF n >= 3 /\ b[2] \in lo2..hi2 /\ IsCont(b[3]) THEN 3 ELSE 0
       ELSE IF b1 \in 240..244
           THEN IF n >= 4 /\ b[2] \in lo2..hi2 /\ IsCont(b[3]) /\ IsCont(b[4])
                THEN 4 ELSE 0
       ELSE 0

\* the bytes an ill-formed sequence at the start of b takes up: the lead and
\* the continuation bytes that could have followed it
BadLen(b) ==
    LET n == Len(b)
        b1 == b[1]
        lo2 == IF b1 = 224 THEN 160 ELSE IF b1 = 240 THEN 144 ELSE 128
        hi2 == IF b1 = 237 THEN 159 ELSE IF b1 = 244 THEN 143 ELSE 191
        want == IF b1 \in 194..223 THEN 2 ELSE IF b1 \in 224..239 THEN 3
                ELSE IF b1 \in 240..244 THEN 4 ELSE 1
    IN IF want = 1 \/ n < 2 \/ ~(b[2] \in lo2..hi2) THEN 1
       ELSE IF want = 2 \/ n < 3 \/ ~IsCont(b[3]) THEN 2
       ELSE 3

\* the code point of the well-formed sequence of n bytes that starts b
DecodeCodePoint(b, n) ==
    IF n = 1 THEN b[1]
    ELSE IF n = 2 THEN (b[1] - 192) * 64 + (b[2] - 128)
    ELSE IF n = 3 THEN (b[1] - 224) * 4096 + (b[2] - 128) * 64 + (b[3] - 128)
    ELSE (b[1] - 240) * 262144 + (b[2] - 128) * 4096 + (b[3] - 128) * 64
         + (b[4] - 128)

\* a decoder that takes every byte for a character (toString("latin1"))
utf8DecodeLatin1(b) == b

\* buf.toString("utf8"): ill-formed input decodes to U+FFFD
RECURSIVE utf8Decode(_)
utf8Decode(b) ==
    IF b = <<>> THEN <<>>
    ELSE LET n == SeqLen(b)
         IN IF n = 0
            THEN <<65533>> \o utf8Decode(SubSeq(b, BadLen(b) + 1, Len(b)))
            ELSE CodeUnits(DecodeCodePoint(b, n))
                 \o utf8Decode(SubSeq(b, n + 1, Len(b)))

----------------------------------------------------------------------------
(* split and join *)

\* s.split(":")
RECURSIVE split(_)
split(s) ==
    LET at == {i \in 1..Len(s) : s[i] = Colon}
    IN IF at = {} THEN <<s>>
       ELSE <<SubSeq(s, 1, Min(at) - 1)>>
            \o split(SubSeq(s, Min(at) + 1, Len(s)))

\* the tag written before the ciphertext
joinTagFirst(a, b, c) == a \o <<Colon>> \o c \o <<Colon>> \o b

\* [a, b, c].join(":")
join3(a, b, c) == a \o <<Colon>> \o b \o <<Colon>> \o c

\* s.includes(":")
includesColon(s) == \E i \in 1..Len(s) : s[i] = Colon

----------------------------------------------------------------------------
(* node:crypto, aes-256-gcm *)

RECURSIVE LaneSum(_, _)
\* the sum of the bytes of buf that fall on byte j of a block: buf[j],
\* buf[j + 16], ...
LaneSum(buf, j) ==
    IF j > Len(buf) THEN 0 ELSE buf[j] + LaneSum(buf, j + BlockLen)

\* stand-in for AES_k of the counter block (iv, ctr): 16 bytes, every byte of
\* key and iv enters one of them
BlockOf(k, iv, ctr) ==
    AsSeq([j \in 1..BlockLen |->
        (k[j] + 3 * k[j + BlockLen] + LaneSum(iv, j) + Len(iv)
         + 17 * ctr) % 256])

\* the keystream XORed onto data (counter mode: block 1, 2, ... of the iv)
Ctr(k, iv, data) ==
    LET n == (Len(data) + BlockLen - 1) \div BlockLen
        blocks == AsSeq([c \in 1..n |-> BlockOf(k, iv, c)])
    IN AsSeq([i \in 1..Len(data) |->
           Xor(data[i],
               blocks[1 + ((i - 1) \div BlockLen)][((i - 1) % BlockLen) + 1])])

\* stand-in for GHASH of the ciphertext
GHash(ct) ==
    AsSeq([j \in 1..BlockLen |-> (LaneSum(ct, j) + Len(ct)) % 256])

\* cipher.getAuthTag(): block 0 of the iv XOR the hash of the ciphertext
\* a tag that does not depend on the key
AuthTagKeyless(k, iv, ct) ==
    LET e == BlockOf(AsSeq([j \in 1..KeyLen |-> 0]), iv, 0)
        g == GHash(ct)
    IN AsSeq([j \in 1..TagLen |-> Xor(e[j], g[j])])

AuthTag(k, iv, ct) ==
    LET e == BlockOf(k, iv, 0)
        g == GHash(ct)
    IN AsSeq([j \in 1..TagLen |-> Xor(e[j], g[j])])

\* what createCipheriv / createDecipheriv("aes-256-gcm", k, iv) throws:
\* the key must be 32 bytes, the iv must not be empty
CipherInitError(k, iv) ==
    IF Len(k) # KeyLen THEN "ERR_CRYPTO_INVALID_KEYLEN"
    ELSE IF Len(iv) = 0 THEN "ERR_CRYPTO_INVALID_IV"
    ELSE "none"

\* the tag lengths decipher.setAuthTag accepts for GCM when createDecipheriv
\* was given no authTagLength
ValidTagLen(n) == n \in {4, 8, 12, 13, 14, 15, 16}

\* decipher.final(): the tag set is compared with as many bytes of the
\* computed tag
TagMatches(k, iv, ct, tag) ==
    LET t == AuthTag(k, iv, ct)
    IN \A j \in 1..Len(tag) : tag[j] = t[j]

----------------------------------------------------------------------------
(* encryption.js *)

\* "0123456789abcdef0123456789abcdef"
DefaultKeyString ==
    AsSeq([i \in 1..32 |-> HexChar((i - 1) % 16)])

\* const key = Buffer.from(process.env.ENCRYPTION_KEY ?? "0123...", "utf8")
ResolveKey(e) ==
    utf8Encode(IF e = Undefined THEN DefaultKeyString ELSE e)

\* encrypt(plain) in a process whose key is k, when randomBytes(12) returns
\* iv: the envelope, or the error createCipheriv throws
EncryptWith(k, plain, iv) ==
    IF CipherInitError(k, iv) # "none"
    THEN [threw |-> CipherInitError(k, iv), out |-> Undefined]
    ELSE LET encrypted == Ctr(k, iv, utf8Encode(plain))
             tag == AuthTag(k, iv, encrypted)
         IN [threw |-> "none",
             out |-> join3(toHex(iv), toHex(encrypted), toHex(tag))]

\* an encrypt whose iv is a constant of the module, not the draw of the call
encryptFixedIv(plain, iv) ==
    EncryptWith(key, plain, AsSeq([i \in 1..NonceLen |-> 0]))

\* an encrypt whose iv is made of the plaintext (its bytes, padded with 0)
encryptIvOfPlain(plain, iv) ==
    EncryptWith(key, plain,
        AsSeq([i \in 1..NonceLen |->
            IF i <= Len(utf8Encode(plain)) THEN utf8Encode(plain)[i] ELSE 0]))

\* encrypt(plain) in this process
\* encrypt, were the key read from the environment in every call
encryptResolving(plain, iv) == EncryptWith(ResolveKey(env), plain, iv)

encrypt(plain, iv) == EncryptWith(key, plain, iv)

\* const [ivHex, encryptedHex, tagHex] = ciphertext.split(":"): the first
\* three segments, `undefined` for a segment that is not there
Destructure(s) ==
    LET segs == split(s)
    IN [ivHex |-> segs[1],
        encryptedHex |-> IF Len(segs) >= 2 THEN segs[2] ELSE Undefined,
        tagHex |-> IF Len(segs) >= 3 THEN segs[3] ELSE Undefined]

\* decrypt(ciphertext) in a process whose key is k, start to end: the string
\* it returns, or the error that leaves it
DecryptWith(k, s) ==
    LET d == Destructure(s)
        iv == fromHex(d.ivHex)
        encrypted == fromHex(d.encryptedHex)
        tag == fromHex(d.tagHex)
    IN IF d.encryptedHex = Undefined \/ d.tagHex = Undefined
       THEN [threw |-> "ERR_INVALID_ARG_TYPE", ret |-> Undefined]
       ELSE IF CipherInitError(k, iv) # "none"
       THEN [threw |-> CipherInitError(k, iv), ret |-> Undefined]
       ELSE IF ~ValidTagLen(Len(tag))
       THEN [threw |-> "ERR_CRYPTO_INVALID_AUTH_TAG", ret |-> Undefined]
       ELSE IF ~TagMatches(k, iv, encrypted, tag)
       THEN [threw |-> "UNABLE_TO_AUTHENTICATE", ret |-> Undefined]
       ELSE [threw |-> "none", ret |-> utf8Decode(Ctr(k, iv, encrypted))]

\* decrypt(ciphertext) in this process
decrypt(s) == DecryptWith(key, s)

----------------------------------------------------------------------------
(* The inputs of the model *)

\* "", "12", "1:2", "é", "€", U+1F600 (a surrogate pair), an unpaired
\* surrogate
Plaintexts ==
    { <<>>, <<49, 50>>, <<49, 58, 50>>, <<233>>, <<8364>>,
      <<55357, 56832>>, <<55296>> }

\* what randomBytes(12) may return
Nonces ==
    { AsSeq([i \in 1..NonceLen |-> 17 * i]),
      AsSeq([i \in 1..NonceLen |-> 255 - i]) }

\* ENCRYPTION_KEY: not set, 32 ASCII characters, 16 ASCII characters
Envs ==
    { Undefined, AsSeq([i \in 1..32 |-> 64 + i]),
      AsSeq([i \in 1..16 |-> 64 + i]) }

\* strings that no encrypt call returned: the plaintexts and "00:00:00"
RawInputs == Plaintexts \cup { <<48, 48, 58, 48, 48, 58, 48, 48>> }

\* the envelope e with bit k of byte i of its decoded segment part inverted
\* (part 1 the nonce, 2 the ciphertext, 3 the tag)
Flipped(e, part, i, k) ==
    LET segs == split(e)
        b(j) == IF j = part THEN FlipAt(fromHex(segs[j]), i, k)
                ELSE fromHex(segs[j])
    IN join3(toHex(b(1)), toHex(b(2)), toHex(b(3)))

\* every envelope that differs from e in one bit of one decoded segment
Tampered(e) ==
    LET segs == split(e)
    IN UNION { { Flipped(e, part, i, k) :
                    i \in 1..Len(fromHex(segs[part])), k \in 0..7 } :
               part \in 1..3 }

\* e with one of its hex digits replaced by "g"
NonHexAt(e) ==
    { [e EXCEPT ![i] = 103] : i \in {j \in 1..Len(e) : e[j] # Colon} }

\* e with "zz" appended to one of its three segments
NonHexAppended(e) ==
    LET segs == split(e)
        z(j, n) == IF j = n THEN segs[j] \o <<122, 122>> ELSE segs[j]
    IN { join3(z(1, n), z(2, n), z(3, n)) : n \in 1..3 }

\* the first two segments of e
TwoSegments(e) ==
    LET segs == split(e) IN { segs[1] \o <<Colon>> \o segs[2] }

\* e followed by ":" and more: nothing, "ab", "zz"
ExtraSegment(e) ==
    { e \o <<Colon>> \o x : x \in { <<>>, <<97, 98>>, <<122, 122>> } }

----------------------------------------------------------------------------
(* The state of a decrypt call *)

DecIdle ==
    [pc |-> "idle", kind |-> "none", plain |-> Undefined, input |-> Undefined,
     ivHex |-> Undefined, encryptedHex |-> Undefined, tagHex |-> Undefined,
     iv |-> Undefined, encrypted |-> Undefined, tag |-> Undefined,
     calls |-> <<>>, decrypted |-> Undefined,
     threw |-> "none", ret |-> Undefined]

NoCall == [plain |-> Undefined, iv |-> Undefined, threw |-> "none",
           out |-> Undefined]

NoSweep == [pc |-> "idle", users |-> <<>>, i |-> 0, encrypted |-> Undefined,
            wrote |-> {}, threw |-> "none"]

\* the process before anything imported encryption.js
NoProc == [loaded |-> FALSE, envAtLoad |-> Undefined, resolved |-> 0,
           printed |-> <<>>, imported |-> {}]

\* the process after encryption.js was evaluated with ENCRYPTION_KEY = e
Loaded(e) == [loaded |-> TRUE, envAtLoad |-> e, resolved |-> 1,
              printed |-> <<>>, imported |-> {}]

\* another process, before it has read anything
NoPeer == [env |-> Undefined, key |-> Undefined, id |-> 0,
           read |-> Undefined, threw |-> "none", ret |-> Undefined]

\* the process before anything imported lib/db/index: no module instance,
\* globalThis._sqlite undefined (0), no Database constructed
NoDbm == [cached |-> FALSE, wraps |-> 0, sqlite |-> 0, constructed |-> 0,
          evaluated |-> 0, imports |-> 0, got |-> <<>>]

\* nothing of the later specifications has happened
RestIdle ==
    /\ racers = <<>>
    /\ writes = <<>>
    /\ proc = Loaded(env)
    /\ peer = NoPeer
    /\ dbm = NoDbm

\* no call is running (JavaScript runs one call at a time)
Quiet == dec.pc = "idle"

Thrown(d, e) == [d EXCEPT !.pc = "done", !.threw = e]

----------------------------------------------------------------------------
(* encrypt and decrypt, called *)

Init ==
    /\ env \in Envs
    /\ key = ResolveKey(env)
    /\ held = NoCall
    /\ log = <<>>
    /\ dec = DecIdle
    /\ store = <<>>
    /\ store0 = <<>>
    /\ sweep = NoSweep
    /\ runs = <<>>
    /\ RestIdle

\* a caller calls encrypt(p); randomBytes returns iv
EncryptCall(p, iv) ==
    /\ Quiet
    /\ LET r == encrypt(p, iv)
       IN held' = [plain |-> p, iv |-> iv, threw |-> r.threw, out |-> r.out]
    /\ dec' = DecIdle
    /\ UNCHANGED <<env, key, log, store, store0, sweep, runs, rest>>

\* a caller calls decrypt(s); kind tells where s came from
StartDecrypt(kind, s) ==
    /\ Quiet
    /\ dec' = [DecIdle EXCEPT !.pc = "l29", !.kind = kind,
                              !.plain = IF kind = "raw" THEN Undefined
                                        ELSE held.plain,
                              !.input = s]
    /\ UNCHANGED <<env, key, held, log, store, store0, sweep, runs, rest>>

\* decrypt is called on the envelope encrypt returned, as it is or changed
DecryptCall ==
    /\ Quiet
    /\ held.out # Undefined
    /\ \/ StartDecrypt("intact", held.out)
       \/ \E s \in Tampered(held.out) : StartDecrypt("flip", s)
       \/ \E s \in NonHexAt(held.out) \cup NonHexAppended(held.out) :
              StartDecrypt("nonhex", s)
       \/ \E s \in TwoSegments(held.out) : StartDecrypt("twoseg", s)
       \/ \E s \in ExtraSegment(held.out) : StartDecrypt("extra", s)

\* decrypt is called on a string that is no envelope of this process
DecryptRaw ==
    /\ Quiet
    /\ \E s \in RawInputs : StartDecrypt("raw", s)

\* line 29
Split ==
    /\ dec.pc = "l29"
    /\ dec' = [dec EXCEPT !.pc = "l31",
                          !.ivHex = Destructure(dec.input).ivHex,
                          !.encryptedHex = Destructure(dec.input).encryptedHex,
                          !.tagHex = Destructure(dec.input).tagHex]
    /\ UNCHANGED <<env, key, held, log, store, store0, sweep, runs, rest>>

\* lines 31-33: Buffer.from(undefined, "hex") throws a TypeError
FromHex ==
    /\ dec.pc = "l31"
    /\ dec' =
        IF dec.encryptedHex = Undefined
        THEN Thrown([dec EXCEPT !.iv = fromHex(dec.ivHex)],
                    "ERR_INVALID_ARG_TYPE")
        ELSE IF dec.tagHex = Undefined
        THEN Thrown([dec EXCEPT !.iv = fromHex(dec.ivHex),
                                !.encrypted = fromHex(dec.encryptedHex)],
                    "ERR_INVALID_ARG_TYPE")
        ELSE [dec EXCEPT !.pc = "l35",
                         !.iv = fromHex(dec.ivHex),
                         !.encrypted = fromHex(dec.encryptedHex),
                         !.tag = fromHex(dec.tagHex)]
    /\ UNCHANGED <<env, key, held, log, store, store0, sweep, runs, rest>>

\* line 35
CreateDecipheriv ==
    /\ dec.pc = "l35"
    /\ LET d == [dec EXCEPT !.calls = Append(dec.calls, "createDecipheriv")]
       IN dec' = IF CipherInitError(key, dec.iv) # "none"
                 THEN Thrown(d, CipherInitError(key, dec.iv))
                 ELSE [d EXCEPT !.pc = "l36"]
    /\ UNCHANGED <<env, key, held, log, store, store0, sweep, runs, rest>>

\* line 36
SetAuthTag ==
    /\ dec.pc = "l36"
    /\ LET d == [dec EXCEPT !.calls = Append(dec.calls, "setAuthTag")]
       IN dec' = IF ~ValidTagLen(Len(dec.tag))
                 THEN Thrown(d, "ERR_CRYPTO_INVALID_AUTH_TAG")
                 ELSE [d EXCEPT !.pc = "l39"]
    /\ UNCHANGED <<env, key, held, log, store, store0, sweep, runs, rest>>

\* line 39: update hands back the bytes under the keystream, not yet checked
Update ==
    /\ dec.pc = "l39"
    /\ dec' = [dec EXCEPT !.pc = "l40",
                          !.calls = Append(dec.calls, "update"),
                          !.decrypted = Ctr(key, dec.iv, dec.encrypted)]
    /\ UNCHANGED <<env, key, held, log, store, store0, sweep, runs, rest>>

\* a final() whose error is swallowed
FinalSwallowed(d) ==
    [d EXCEPT !.pc = "l43", !.calls = Append(d.calls, "final")]

\* what decipher.final() does to the call d: throw unless the tag matches
Final(d) ==
    IF TagMatches(key, d.iv, d.encrypted, d.tag)
    THEN [d EXCEPT !.pc = "l43", !.calls = Append(d.calls, "final")]
    ELSE Thrown([d EXCEPT !.calls = Append(d.calls, "final")],
                "UNABLE_TO_AUTHENTICATE")

\* line 40
FinalStep ==
    /\ dec.pc = "l40"
    /\ dec' = Final(dec)
    /\ UNCHANGED <<env, key, held, log, store, store0, sweep, runs, rest>>

\* a return of what update gave, final() not awaited
ReturnUnverified ==
    /\ dec.pc \in {"l40", "l43"}
    /\ dec' = [dec EXCEPT !.pc = "done", !.ret = utf8Decode(dec.decrypted)]
    /\ UNCHANGED <<env, key, held, log, store, store0, sweep, runs, rest>>

\* line 43
Return ==
    /\ dec.pc = "l43"
    /\ dec' = [dec EXCEPT !.pc = "done", !.ret = utf8Decode(dec.decrypted)]
    /\ UNCHANGED <<env, key, held, log, store, store0, sweep, runs, rest>>

\* the caller has the result of the call (the string, or the error)
DecryptDone ==
    /\ dec.pc = "done"
    /\ dec' = DecIdle
    /\ UNCHANGED <<env, key, held, log, store, store0, sweep, runs, rest>>

DecryptStep ==
    \/ Split
    \/ FromHex
    \/ CreateDecipheriv
    \/ SetAuthTag
    \/ Update
    \/ FinalStep
    \/ Return
    \/ DecryptDone

Next ==
    \/ \E p \in Plaintexts, iv \in Nonces : EncryptCall(p, iv)
    \/ DecryptCall
    \/ DecryptRaw
    \/ DecryptStep

Spec == Init /\ [][Next]_vars

----------------------------------------------------------------------------
(* A process that calls encrypt several times, and decrypt on the results *)

NoBack == [called |-> FALSE, threw |-> "none", ret |-> Undefined]

\* encrypt(p) is called; randomBytes returns iv; the call is written down
EncryptLogged(p, iv) ==
    /\ Quiet
    /\ Len(log) < MaxEncrypts
    /\ LET r == encrypt(p, iv)
       IN /\ held' = [plain |-> p, iv |-> iv, threw |-> r.threw,
                      out |-> r.out]
          /\ log' = Append(log, [plain |-> p, iv |-> iv, threw |-> r.threw,
                                 out |-> r.out, back |-> NoBack])
    /\ UNCHANGED <<env, key, dec, store, store0, sweep, runs, rest>>

\* decrypt is called on what the i-th encrypt call returned
DecryptLogged(i) ==
    /\ Quiet
    /\ log[i].out # Undefined
    /\ ~log[i].back.called
    /\ LET r == decrypt(log[i].out)
       IN log' = [log EXCEPT ![i].back =
                     [called |-> TRUE, threw |-> r.threw, ret |-> r.ret]]
    /\ UNCHANGED <<env, key, held, dec, store, store0, sweep, runs, rest>>

\* the plaintexts of a sequence of calls: "", "12", "€", an unpaired
\* surrogate
CallPlaintexts == { <<>>, <<49, 50>>, <<8364>>, <<55296>> }

NextCalls ==
    \/ \E p \in CallPlaintexts, iv \in Nonces : EncryptLogged(p, iv)
    \/ \E i \in 1..Len(log) : DecryptLogged(i)

SpecCalls == Init /\ [][NextCalls]_vars

----------------------------------------------------------------------------
(* The encrypt-ssns command of scripts/db-utils.js *)

\* the key of the process that wrote the envelopes already in the table
WriterKey(e) ==
    IF Len(ResolveKey(e)) = KeyLen THEN ResolveKey(e)
    ELSE ResolveKey(Undefined)

\* what an ssn column may hold before the first run: "12", "1:2", "", "€",
\* or the envelope of "12"
StoreValues(e) ==
    { <<49, 50>>, <<49, 58, 50>>, <<>>, <<8364>> }
    \cup { EncryptWith(WriterKey(e), <<49, 50>>, iv).out :
             iv \in { AsSeq([i \in 1..NonceLen |-> 17 * i]) } }

InitSweep ==
    /\ env \in Envs
    /\ key = ResolveKey(env)
    /\ held = NoCall
    /\ log = <<>>
    /\ dec = DecIdle
    /\ store \in UNION { [1..n -> StoreValues(env)] : n \in 0..NumRecords }
    /\ store0 = store
    /\ sweep = NoSweep
    /\ runs = <<>>
    /\ RestIdle

\* the run moves on to the next user, or is over
Advance(sw) ==
    IF sw.i < Len(sw.users)
    THEN [sw EXCEPT !.pc = "check", !.i = sw.i + 1, !.encrypted = Undefined]
    ELSE [sw EXCEPT !.pc = "done", !.encrypted = Undefined]

\* lines 87-92: SELECT id, ssn FROM users
Select ==
    /\ sweep.pc = "idle"
    /\ Len(runs) < MaxSweeps
    /\ sweep' = [NoSweep EXCEPT
                    !.pc = IF Len(store) = 0 THEN "done" ELSE "check",
                    !.users = [i \in 1..Len(store) |->
                                  [id |-> i, ssn |-> store[i]]],
                    !.i = 1]
    /\ UNCHANGED <<env, key, held, log, dec, store, store0, runs, rest>>

\* line 95: user.ssn && !user.ssn.includes(":")
NeedsEncrypting(ssn) == ssn # <<>> /\ ~includesColon(ssn)

\* line 95
Check ==
    /\ sweep.pc = "check"
    /\ sweep' = IF NeedsEncrypting(sweep.users[sweep.i].ssn)
                THEN [sweep EXCEPT !.pc = "encrypt"]
                ELSE Advance(sweep)
    /\ UNCHANGED <<env, key, held, log, dec, store, store0, runs, rest>>

\* line 96: an error of encrypt is caught nowhere and ends the run
EncryptStep(iv) ==
    /\ sweep.pc = "encrypt"
    /\ LET r == encrypt(sweep.users[sweep.i].ssn, iv)
       IN sweep' = IF r.threw # "none"
                   THEN [sweep EXCEPT !.pc = "done", !.threw = r.threw]
                   ELSE [sweep EXCEPT !.pc = "update", !.encrypted = r.out]
    /\ UNCHANGED <<env, key, held, log, dec, store, store0, runs, rest>>

\* line 97: UPDATE users SET ssn = ? WHERE id = ?
UpdateStep ==
    /\ sweep.pc = "update"
    /\ store' = [store EXCEPT ![sweep.users[sweep.i].id] = sweep.encrypted]
    /\ sweep' = Advance([sweep EXCEPT
                            !.wrote = @ \cup {sweep.users[sweep.i].id}])
    /\ UNCHANGED <<env, key, held, log, dec, store0, runs, rest>>

\* line 97: update.run throws (the table is locked, the disk is full); the
\* error is caught nowhere and ends the run
UpdateThrows ==
    /\ sweep.pc = "update"
    /\ sweep' = [sweep EXCEPT !.pc = "done", !.threw = "SqliteError"]
    /\ UNCHANGED <<env, key, held, log, dec, store, store0, runs, rest>>

\* lines 102-104: the command ends; what it left is written down
EndRun ==
    /\ sweep.pc = "done"
    /\ runs' = Append(runs, [store |-> store, wrote |-> sweep.wrote,
                             threw |-> sweep.threw])
    /\ sweep' = NoSweep
    /\ UNCHANGED <<env, key, held, log, dec, store, store0, rest>>

NextSweep ==
    \/ Select
    \/ Check
    \/ \E iv \in Nonces : EncryptStep(iv)
    \/ UpdateStep
    \/ UpdateThrows
    \/ EndRun

SpecSweep == InitSweep /\ [][NextSweep]_vars

----------------------------------------------------------------------------
(* The life of a process that imports encryption.js *)

InitProcess ==
    /\ env \in Envs
    /\ key = Undefined
    /\ held = NoCall
    /\ log = <<>>
    /\ dec = DecIdle
    /\ store = <<>>
    /\ store0 = <<>>
    /\ sweep = NoSweep
    /\ runs = <<>>
    /\ racers = <<>>
    /\ writes = <<>>
    /\ proc = NoProc
    /\ peer = NoPeer
    /\ dbm = NoDbm

\* line 1 of a caller: import { encrypt, decrypt } from ".../encryption".
\* The first import evaluates the module, lines 3-8 with it; a later import
\* finds the module in the module cache.  Evaluation prints nothing and
\* throws nothing, whatever ENCRYPTION_KEY holds.
Import(c) ==
    /\ Quiet
    /\ c \notin proc.imported
    /\ IF proc.loaded
       THEN /\ proc' = [proc EXCEPT !.imported = @ \cup {c}]
            /\ key' = key
       ELSE /\ proc' = [proc EXCEPT !.loaded = TRUE, !.envAtLoad = env,
                                    !.resolved = @ + 1,
                                    !.imported = @ \cup {c}]
            /\ key' = ResolveKey(env)
    /\ UNCHANGED <<env, held, log, dec, store, store0, sweep, runs,
                   racers, writes, peer, dbm>>

\* line 4 reads process.env.ENCRYPTION_KEY; the process sets it to e
SetEnv(e) ==
    /\ Quiet
    /\ e # env
    /\ env' = e
    /\ UNCHANGED <<key, held, log, dec, store, store0, sweep, runs, rest>>

\* caller c calls encrypt(p); randomBytes returns iv
CallEncrypt(c, p, iv) ==
    /\ c \in proc.imported
    /\ EncryptCall(p, iv)

\* caller c calls decrypt on the envelope encrypt returned last
CallDecrypt(c) ==
    /\ Quiet
    /\ c \in proc.imported
    /\ held.out # Undefined
    /\ LET r == decrypt(held.out)
       IN dec' = [DecIdle EXCEPT !.pc = "done", !.kind = "intact",
                                 !.plain = held.plain, !.input = held.out,
                                 !.threw = r.threw, !.ret = r.ret]
    /\ UNCHANGED <<env, key, held, log, store, store0, sweep, runs, rest>>

NextProcess ==
    \/ \E c \in 1..NumCallers : Import(c)
    \/ \E e \in Envs : SetEnv(e)
    \/ \E c \in 1..NumCallers, p \in Plaintexts, iv \in Nonces :
          CallEncrypt(c, p, iv)
    \/ \E c \in 1..NumCallers : CallDecrypt(c)
    \/ DecryptDone

SpecProcess == InitProcess /\ [][NextProcess]_vars

----------------------------------------------------------------------------
(* lib/db/index after the PERF-408 fix (documentation.md 541-546) *)

InitDbm ==
    /\ env = Undefined
    /\ key = ResolveKey(env)
    /\ held = NoCall
    /\ log = <<>>
    /\ dec = DecIdle
    /\ store = <<>>
    /\ store0 = <<>>
    /\ sweep = NoSweep
    /\ runs = <<>>
    /\ racers = <<>>
    /\ writes = <<>>
    /\ proc = Loaded(env)
    /\ peer = NoPeer
    /\ dbm = [NoDbm EXCEPT !.got = [c \in 1..NumImporters |-> 0]]

\* the module as it was before the fix: new Database(dbPath) in every
\* evaluation
EvaluateUnguarded(d) ==
    [d EXCEPT !.cached = TRUE,
              !.evaluated = @ + 1,
              !.constructed = @ + 1,
              !.sqlite = d.constructed + 1,
              !.wraps = d.constructed + 1]

\* lines 541-546: the module is evaluated.  The n-th call of the Database
\* constructor returns connection n.
Evaluate(d) ==
    IF d.sqlite = 0
    THEN [d EXCEPT !.cached = TRUE,
                   !.evaluated = @ + 1,
                   !.constructed = @ + 1,
                   !.sqlite = d.constructed + 1,
                   !.wraps = d.constructed + 1]
    ELSE [d EXCEPT !.cached = TRUE,
                   !.evaluated = @ + 1,
                   !.wraps = d.sqlite]

\* db.test.ts lines 23, 28: file c imports { db } from lib/db/index; the
\* module is evaluated unless it is in the module cache
ImportDb(c) ==
    /\ dbm.imports < MaxImports
    /\ LET d == IF dbm.cached THEN dbm ELSE Evaluate(dbm)
       IN dbm' = [d EXCEPT !.imports = @ + 1, !.got[c] = d.wraps]
    /\ UNCHANGED <<env, key, held, log, dec, store, store0, sweep, runs,
                   racers, writes, proc, peer>>

\* db.test.ts lines 16-18: vi.resetModules() empties the module cache;
\* globalThis stays
ResetModules ==
    /\ dbm.cached
    /\ dbm' = [dbm EXCEPT !.cached = FALSE, !.wraps = 0]
    /\ UNCHANGED <<env, key, held, log, dec, store, store0, sweep, runs,
                   racers, writes, proc, peer>>

NextDbm ==
    \/ \E c \in 1..NumImporters : ImportDb(c)
    \/ ResetModules

SpecDbm == InitDbm /\ [][NextDbm]_vars

----------------------------------------------------------------------------
(* A second process that reads the table the encrypt-ssns command wrote *)

\* ENCRYPTION_KEY of the second process: absent, the 32 characters of the
\* first, 32 characters of which the last differs, or 16 characters
PeerEnvs ==
    Envs \cup { AsSeq([i \in 1..32 |-> IF i = 32 THEN 97 ELSE 64 + i]) }

InitKeys ==
    /\ env \in Envs
    /\ key = ResolveKey(env)
    /\ held = NoCall
    /\ log = <<>>
    /\ dec = DecIdle
    /\ store = [i \in 1..NumRecords |->
                   IF i % 2 = 1 THEN <<49, 50>> ELSE <<8364>>]
    /\ store0 = store
    /\ sweep = NoSweep
    /\ runs = <<>>
    /\ racers = <<>>
    /\ writes = <<>>
    /\ proc = Loaded(env)
    /\ \E e \in PeerEnvs :
          peer = [NoPeer EXCEPT !.env = e, !.key = ResolveKey(e)]
    /\ dbm = NoDbm

\* the second process reads the ssn of user id and calls decrypt on it
PeerRead(id) ==
    /\ store[id] # peer.read
    /\ LET r == DecryptWith(peer.key, store[id])
       IN peer' = [peer EXCEPT !.id = id, !.read = store[id],
                               !.threw = r.threw, !.ret = r.ret]
    /\ UNCHANGED <<env, key, held, log, dec, store, store0, sweep, runs,
                   racers, writes, proc, dbm>>

NextKeys ==
    \/ Select
    \/ Check
    \/ \E iv \in Nonces : EncryptStep(iv)
    \/ UpdateStep
    \/ EndRun
    \/ \E id \in 1..Len(store) : PeerRead(id)

SpecKeys == InitKeys /\ [][NextKeys]_vars

----------------------------------------------------------------------------
(* Two encrypt-ssns commands at once on one users table *)

\* what an ssn column may hold before the runs: "12", "1:2", or the
\* envelope of "12"
RaceValues(e) ==
    { <<49, 50>>, <<49, 58, 50>> }
    \cup { EncryptWith(WriterKey(e), <<49, 50>>, iv).out :
             iv \in { AsSeq([i \in 1..NonceLen |-> 17 * i]) } }

InitRace ==
    /\ env \in Envs
    /\ key = ResolveKey(env)
    /\ held = NoCall
    /\ log = <<>>
    /\ dec = DecIdle
    /\ store \in UNION { [1..n -> RaceValues(env)] : n \in 1..NumRecords }
    /\ store0 = store
    /\ sweep = NoSweep
    /\ runs = <<>>
    /\ racers = [p \in 1..NumSweepers |-> NoSweep]
    /\ writes = <<>>
    /\ proc = Loaded(env)
    /\ peer = NoPeer
    /\ dbm = NoDbm

\* lines 87-92: command p reads the table
RaceSelect(p) ==
    /\ racers[p].pc = "idle"
    /\ racers' = [racers EXCEPT ![p] =
                     [NoSweep EXCEPT
                         !.pc = IF Len(store) = 0 THEN "done" ELSE "check",
                         !.users = [i \in 1..Len(store) |->
                                       [id |-> i, ssn |-> store[i]]],
                         !.i = 1]]
    /\ UNCHANGED <<env, key, held, log, dec, store, store0, sweep, runs,
                   writes, proc, peer, dbm>>

\* line 95, in command p
RaceCheck(p) ==
    /\ racers[p].pc = "check"
    /\ racers' = [racers EXCEPT ![p] =
                     IF NeedsEncrypting(racers[p].users[racers[p].i].ssn)
                     THEN [racers[p] EXCEPT !.pc = "encrypt"]
                     ELSE Advance(racers[p])]
    /\ UNCHANGED <<env, key, held, log, dec, store, store0, sweep, runs,
                   writes, proc, peer, dbm>>

\* line 96, in command p
RaceEncrypt(p, iv) ==
    /\ racers[p].pc = "encrypt"
    /\ LET r == encrypt(racers[p].users[racers[p].i].ssn, iv)
       IN racers' = [racers EXCEPT ![p] =
                        IF r.threw # "none"
                        THEN [racers[p] EXCEPT !.pc = "done",
                                               !.threw = r.threw]
                        ELSE [racers[p] EXCEPT !.pc = "update",
                                               !.encrypted = r.out]]
    /\ UNCHANGED <<env, key, held, log, dec, store, store0, sweep, runs,
                   writes, proc, peer, dbm>>

\* line 97, in command p: UPDATE users SET ssn = ? WHERE id = ?
RaceUpdate(p) ==
    /\ racers[p].pc = "update"
    /\ LET id == racers[p].users[racers[p].i].id
       IN /\ store' = [store EXCEPT ![id] = racers[p].encrypted]
          /\ writes' = Append(writes,
                              [by |-> p, id |-> id, over |-> store[id],
                               value |-> racers[p].encrypted])
          /\ racers' = [racers EXCEPT ![p] =
                           Advance([racers[p] EXCEPT !.wrote = @ \cup {id}])]
    /\ UNCHANGED <<env, key, held, log, dec, store0, sweep, runs,
                   proc, peer, dbm>>

NextRace ==
    \/ \E p \in 1..NumSweepers : RaceSelect(p)
    \/ \E p \in 1..NumSweepers : RaceCheck(p)
    \/ \E p \in 1..NumSweepers, iv \in Nonces : RaceEncrypt(p, iv)
    \/ \E p \in 1..NumSweepers : RaceUpdate(p)

SpecRace == InitRace /\ [][NextRace]_vars

----------------------------------------------------------------------------
(* Properties of encrypt and decrypt *)

\* s has no unpaired surrogate
WellFormed(s) ==
    \A i \in 1..Len(s) :
        /\ IsHigh(s[i]) => (i < Len(s) /\ IsLow(s[i + 1]))
        /\ IsLow(s[i]) => (i > 1 /\ IsHigh(s[i - 1]))

\* the decrypt call has ended on the envelope encrypt returned, unchanged
RoundTripDone == dec.pc = "done" /\ dec.kind = "intact"

\* C1 as stated: for every plaintext p, decrypt(encrypt(p)) returns exactly p.
C1_RoundTripEveryString ==
    RoundTripDone => (dec.threw = "none" /\ dec.ret = dec.plain)

\* C1, amended: for every plaintext p that is well-formed UTF-16 (the empty
\* string and multi-byte text included), decrypt(encrypt(p)) returns exactly p.
C1_RoundTrip ==
    (RoundTripDone /\ WellFormed(dec.plain))
        => (dec.threw = "none" /\ dec.ret = dec.plain)

\* a round trip of multi-byte text has ended
C1_Witness ==
    /\ RoundTripDone
    /\ Len(utf8Encode(dec.plain)) > Len(dec.plain)
    /\ dec.ret = dec.plain

\* C2: decrypt of an envelope with one bit of its decoded nonce, ciphertext or
\* tag inverted fails in final() (authentication) and returns no string.
C2_TamperDetected ==
    (dec.pc = "done" /\ dec.kind = "flip")
        => (dec.threw = "UNABLE_TO_AUTHENTICATE" /\ dec.ret = Undefined)

\* decrypt has failed on an envelope whose nonce had a bit inverted
C2_Witness ==
    /\ dec.pc = "done"
    /\ dec.kind = "flip"
    /\ dec.iv # held.iv
    /\ dec.threw = "UNABLE_TO_AUTHENTICATE"

\* C3: decrypt of a string with two segments, or with a segment that holds a
\* character that is no hex digit, fails, and fails before createDecipheriv,
\* update or final is reached.
C3_MalformedBeforeCipher ==
    (dec.pc = "done" /\ dec.kind \in {"twoseg", "nonhex"})
        => (dec.threw # "none" /\ dec.calls = <<>>)

\* C4: decrypt of a valid envelope followed by ":" and more fails; it does
\* not return the plaintext of the first three segments.
C4_ExtraSegmentRejected ==
    (dec.pc = "done" /\ dec.kind = "extra") => dec.threw # "none"

\* C5: decrypt returns a string only after final() has verified the tag, and
\* a call that fails returns nothing.
C5_AllOrNothing ==
    /\ dec.ret # Undefined =>
        /\ dec.threw = "none"
        /\ dec.calls = <<"createDecipheriv", "setAuthTag", "update", "final">>
        /\ TagMatches(key, dec.iv, dec.encrypted, dec.tag)
    /\ dec.threw # "none" => dec.ret = Undefined

\* final() has thrown after update had produced bytes: none was returned
C5_Witness ==
    /\ dec.pc = "done"
    /\ dec.threw = "UNABLE_TO_AUTHENTICATE"
    /\ dec.decrypted # Undefined
    /\ dec.ret = Undefined

\* C8: a string encrypt(p) returns has exactly three ":"-separated segments of
\* hex digits, which decode to 12 bytes, as many bytes as the UTF-8 encoding
\* of p, and 16 bytes, in that order.
C8_EnvelopeShape ==
    held.out # Undefined =>
        LET segs == split(held.out)
        IN /\ Len(segs) = 3
           /\ \A j \in 1..3 : IsHexString(segs[j]) /\ Len(segs[j]) % 2 = 0
           /\ Len(fromHex(segs[1])) = NonceLen
           /\ Len(fromHex(segs[2])) = Len(utf8Encode(held.plain))
           /\ Len(fromHex(segs[3])) = TagLen

\* encrypt has returned the envelope of a multi-byte plaintext
C8_Witness ==
    /\ held.out # Undefined
    /\ Len(utf8Encode(held.plain)) > Len(held.plain)

\* the steps of decrypt and decrypt taken whole agree
StepsAgree ==
    dec.pc = "done" =>
        (dec.threw = decrypt(dec.input).threw /\ dec.ret = decrypt(dec.input).ret)

----------------------------------------------------------------------------
(* Properties of a sequence of encrypt calls *)

\* the nonce written in the envelope e
NonceOf(e) == fromHex(split(e)[1])

\* the i-th and j-th encrypt calls both returned an envelope
BothReturned(i, j) == log[i].out # Undefined /\ log[j].out # Undefined

\* the decrypt call on the i-th envelope, if made, returned the plaintext
DecryptsBack(i) ==
    log[i].back.called =>
        (log[i].back.threw = "none" /\ log[i].back.ret = log[i].plain)

\* C6 as stated: two encrypt calls with the same plaintext return different
\* envelopes, and both envelopes decrypt back to that plaintext.
C6_AlwaysDifferent ==
    \A i, j \in 1..Len(log) :
        (i < j /\ BothReturned(i, j) /\ log[i].plain = log[j].plain)
            => /\ log[i].out # log[j].out
               /\ DecryptsBack(i)
               /\ DecryptsBack(j)

\* C6, amended: two encrypt calls with the same well-formed plaintext return
\* different envelopes whenever randomBytes returned different nonces, and
\* both envelopes decrypt back to that plaintext.
C6_DifferentWhenNoncesDiffer ==
    \A i, j \in 1..Len(log) :
        (i < j /\ BothReturned(i, j) /\ log[i].plain = log[j].plain
               /\ WellFormed(log[i].plain))
            => /\ log[i].iv # log[j].iv => log[i].out # log[j].out
               /\ DecryptsBack(i)
               /\ DecryptsBack(j)

\* two calls with one plaintext and two nonces, both decrypted back
C6_Witness ==
    \E i, j \in 1..Len(log) :
        /\ i < j
        /\ BothReturned(i, j)
        /\ log[i].plain = log[j].plain
        /\ log[i].plain # <<>>
        /\ log[i].iv # log[j].iv
        /\ log[i].out # log[j].out
        /\ log[i].back.called /\ log[i].back.ret = log[i].plain
        /\ log[j].back.called /\ log[j].back.ret = log[j].plain

\* C7 as stated: no nonce is used for two different plaintexts.
C7_NoNonceReuse ==
    \A i, j \in 1..Len(log) :
        (i < j /\ BothReturned(i, j) /\ log[i].plain # log[j].plain)
            => NonceOf(log[i].out) # NonceOf(log[j].out)

\* C7, amended: every encrypt call uses the nonce its own randomBytes(12) call
\* returned, so two calls use one nonce only when randomBytes returned the
\* same 12 bytes to both.
C7_NonceIsOwnDraw ==
    /\ \A i \in 1..Len(log) :
          log[i].out # Undefined => NonceOf(log[i].out) = log[i].iv
    /\ \A i, j \in 1..Len(log) :
          (BothReturned(i, j) /\ NonceOf(log[i].out) = NonceOf(log[j].out))
              => log[i].iv = log[j].iv

\* two calls with different plaintexts and different nonces
C7_Witness ==
    \E i, j \in 1..Len(log) :
        /\ i < j
        /\ BothReturned(i, j)
        /\ log[i].plain # log[j].plain
        /\ NonceOf(log[i].out) # NonceOf(log[j].out)

----------------------------------------------------------------------------
(* Properties of the encrypt-ssns command *)

\* the first n runs have ended, none by an error
RanClean(n) ==
    /\ Len(runs) >= n
    /\ \A r \in 1..n : runs[r].threw = "none"

\* the shape of an envelope: three segments of hex digits that decode to 12
\* bytes, any number of bytes, and 16 bytes
IsEnvelope(s) ==
    LET segs == split(s)
    IN /\ Len(segs) = 3
       /\ \A j \in 1..3 : IsHexString(segs[j]) /\ Len(segs[j]) % 2 = 0
       /\ Len(segs[1]) = 2 * NonceLen
       /\ Len(segs[3]) = 2 * TagLen

\* the column holds a value to protect: not empty, and no envelope
IsPlaintext(s) == s # <<>> /\ ~IsEnvelope(s)

\* C9: a second run leaves the table as the first run left it and writes
\* nothing, and every value that was plaintext decrypts to what it was.
C9_SweepIdempotent ==
    RanClean(2) =>
        /\ runs[2].store = runs[1].store
        /\ runs[2].wrote = {}
        /\ \A id \in 1..Len(store0) :
              IsPlaintext(store0[id]) =>
                  /\ decrypt(runs[2].store[id]).threw = "none"
                  /\ decrypt(runs[2].store[id]).ret = store0[id]

\* C10: one run leaves every envelope as it was, replaces every plaintext by
\* an envelope of it, and writes no other record.
C10_SweepFrame ==
    RanClean(1) =>
        \A id \in 1..Len(store0) :
            /\ IsEnvelope(store0[id]) =>
                  (runs[1].store[id] = store0[id] /\ id \notin runs[1].wrote)
            /\ IsPlaintext(store0[id]) =>
                  /\ IsEnvelope(runs[1].store[id])
                  /\ decrypt(runs[1].store[id]).ret = store0[id]
                  /\ id \in runs[1].wrote

\* the run has ended by an error of encrypt or of update.run
RunFailed == sweep.pc = "done" /\ sweep.threw # "none"

\* C11: a run in which encrypt or the write of one record fails still goes on
\* to every later record of its snapshot.
C11_FailureDoesNotAbort ==
    RunFailed => sweep.i = Len(sweep.users)

----------------------------------------------------------------------------
(* Properties of two encrypt-ssns commands at once *)

\* every command has ended, none by an error
RaceOver ==
    \A p \in 1..NumSweepers :
        racers[p].pc = "done" /\ racers[p].threw = "none"

\* every UPDATE so far wrote the envelope of what the record first held
WritesAreEnvelopes ==
    \A w \in 1..Len(writes) :
        /\ IsEnvelope(writes[w].value)
        /\ decrypt(writes[w].value).threw = "none"
        /\ decrypt(writes[w].value).ret = store0[writes[w].id]

\* C12: however two runs interleave, every write is a complete envelope, and
\* when both have ended every record that held a plaintext holds an envelope
\* that decrypts to that plaintext.
C12_RaceKeepsRecords ==
    /\ WritesAreEnvelopes
    /\ RaceOver =>
          \A id \in 1..Len(store0) :
              IsPlaintext(store0[id]) =>
                  /\ IsEnvelope(store[id])
                  /\ decrypt(store[id]).threw = "none"
                  /\ decrypt(store[id]).ret = store0[id]

----------------------------------------------------------------------------
(* Properties of key resolution *)

\* encrypt has returned an envelope made with the default key
UsedDefaultKey ==
    /\ proc.loaded
    /\ proc.envAtLoad = Undefined
    /\ held.out # Undefined

\* C13: when ENCRYPTION_KEY is absent at key resolution, no envelope is made
\* with the default key unless a warning was printed first.
C13_MissingKeyLoud ==
    UsedDefaultKey => proc.printed # <<>>

\* a call of encrypt or decrypt has been made
CallMade == held # NoCall \/ dec.pc = "done"

\* C14: a key that is not 32 bytes long stops the process when the key is
\* resolved; no call of encrypt or decrypt is ever made with such a key.
C14_KeyLengthFatalAtResolution ==
    CallMade => Len(key) = KeyLen

\* the key of the process, as resolved when encryption.js was evaluated
KeyAtLoad == ResolveKey(proc.envAtLoad)

\* C15: the key is resolved at most once in a process, however many callers
\* import the module and whatever ENCRYPTION_KEY becomes later, and every
\* call of encrypt and decrypt uses the key resolved then.
C15_SingleKeyResolution ==
    /\ proc.resolved <= 1
    /\ proc.loaded => key = KeyAtLoad
    /\ held # NoCall =>
          /\ held.threw = EncryptWith(KeyAtLoad, held.plain, held.iv).threw
          /\ held.out = EncryptWith(KeyAtLoad, held.plain, held.iv).out
    /\ dec.pc = "done" =>
          /\ dec.threw = DecryptWith(KeyAtLoad, dec.input).threw
          /\ dec.ret = DecryptWith(KeyAtLoad, dec.input).ret

\* both callers have imported the module, ENCRYPTION_KEY has changed to
\* another usable key since, and a round trip has ended
C15_Witness ==
    /\ proc.imported = 1..NumCallers
    /\ env # proc.envAtLoad
    /\ Len(ResolveKey(env)) = KeyLen
    /\ Len(key) = KeyLen
    /\ dec.pc = "done"
    /\ dec.ret = held.plain
    /\ held.plain # <<>>

----------------------------------------------------------------------------
(* Properties of lib/db/index *)

\* C16: over any number of imports of lib/db/index in one process the
\* Database constructor is called at most once, and what every import gets
\* wraps the one connection of globalThis._sqlite.
C16_OneConnection ==
    /\ dbm.constructed <= 1
    /\ \A c \in 1..NumImporters :
          dbm.got[c] # 0 => dbm.got[c] = dbm.sqlite

\* the module has been evaluated twice and imported by both files, and the
\* constructor was called once
C16_Witness ==
    /\ dbm.evaluated >= 2
    /\ \A c \in 1..NumImporters : dbm.got[c] # 0
    /\ dbm.imports > dbm.evaluated
    /\ dbm.constructed = 1

----------------------------------------------------------------------------
(* Properties of the classification of the encrypt-ssns command *)

\* C17: a run encrypts a record exactly when its value has not the shape of
\* an envelope, a plaintext that contains ":" included.
C17_ClassifiesByShape ==
    RanClean(1) =>
        \A id \in 1..Len(store0) :
            id \in runs[1].wrote <=> IsPlaintext(store0[id])

\* C18: after a run that ended without an error every record that holds a
\* value holds an envelope, and a further run writes nothing.
C18_SweepConverges ==
    /\ RanClean(1) =>
          \A id \in 1..Len(store0) :
              store0[id] # <<>> => IsEnvelope(runs[1].store[id])
    /\ RanClean(2) => runs[2].wrote = {}

----------------------------------------------------------------------------
(* Properties of the writes of two encrypt-ssns commands at once *)

\* C19: a command writes a record only if the record still holds a plaintext
\* when the UPDATE runs; it never overwrites an envelope another command
\* wrote since the SELECT.
C19_WriteRevalidated ==
    \A w \in 1..Len(writes) : IsPlaintext(writes[w].over)

----------------------------------------------------------------------------
(* Properties of the key *)

\* the second process, with a key of 32 bytes, has called decrypt on an
\* envelope the encrypt-ssns command wrote
PeerReadEnvelope ==
    /\ peer.read # Undefined
    /\ IsEnvelope(peer.read)
    /\ Len(peer.key) = KeyLen

\* C20: decrypt of an envelope returns the plaintext under the key that
\* made it; under any other key of 32 bytes final() throws and nothing is
\* returned.  So a process with a configured key cannot read what a run
\* with the default key wrote.
C20_KeyBinding ==
    PeerReadEnvelope =>
        IF peer.key = key
        THEN peer.threw = "none" /\ peer.ret = store0[peer.id]
        ELSE peer.threw = "UNABLE_TO_AUTHENTICATE" /\ peer.ret = Undefined

\* a process with a configured key has failed to decrypt an envelope that a
\* run with the default key wrote
C20_Witness ==
    /\ PeerReadEnvelope
    /\ env = Undefined
    /\ peer.env # Undefined
    /\ peer.id \in UNION { runs[r].wrote : r \in 1..Len(runs) }
    /\ peer.threw = "UNABLE_TO_AUTHENTICATE"

====
